---- MODULE Spec2Model ----
(***************************************************************************)
(* State-machine model of ClusterCleanup (cluster-manager): the teardown   *)
(* pipeline deleteHelper, the gateway operations it awaits, and the stack  *)
(* deletion poller (pollCloudFormationForChanges and                       *)
(* setupCloudFormationPolling).                                            *)
(*                                                                         *)
(* Scheduling: node's single-threaded event loop.  The code of deleteHelper *)
(* between two awaits runs without interruption, so the callbacks of the   *)
(* event loop (settling of a remote call, a timer firing) are enabled only *)
(* while deleteHelper is suspended at an await (pc in Awaits).             *)
(***************************************************************************)
EXTENDS Integers, Sequences, FiniteSets, TLC

\* ---------------------------------------------------------------- bounds
MaxEc2Services == 1
MaxFargateServices == 1
MaxTasks == 1
MaxInstances == 1
MaxChecks == 2
MaxResources == 1
MaxHistLen == 2
\* remote calls that fail in one run
MaxFailures == 2

VARIABLES
    world,          \* the remote account as it is when the run starts
    remoteStack,    \* state of the stack EC2ContainerService-<cluster> in CloudFormation
    returned,       \* deleteClusterAndResources has returned this.events to the caller
    pc,             \* position of deleteHelper
    events,         \* everything emitted on this.events, in emission order
    calls,          \* every remote call issued, in issue order
    stack,          \* deleteHelper: const stack (TRUE iff truthy)
    foundServices,  \* deleteHelper: const foundServices
    services,       \* deleteHelper: let services
    foundTasks,     \* deleteHelper: const foundTasks
    tasks,          \* deleteHelper: let tasks
    foundInstances, \* deleteHelper: const foundInstances
    instances,      \* deleteHelper: let instances
    pending,        \* per-resource / per-scope remote calls in flight
    okCalls,        \* remote calls that have settled with success
    failedCalls,    \* remote calls that have settled with failure
    failures,       \* number of remote calls that have failed so far
    pollTimer,      \* the setInterval handle of setupCloudFormationPolling
    timeoutTimer,   \* the setTimeout handle of pollCloudFormationForChanges
    waitState,      \* cloudFormation.waitFor('stackDeleteComplete') promise
    dseInflight,    \* describeStackEvents calls of pollEvent in flight
    checks,         \* number of pollEvent invocations so far
    alreadyDeleted  \* setupCloudFormationPolling: const alreadyDeleted

vars == <<world, remoteStack, returned, pc, events, calls, stack, foundServices,
          services, foundTasks, tasks, foundInstances, instances, pending,
          okCalls, failedCalls, failures, pollTimer, timeoutTimer,
          waitState, dseInflight, checks, alreadyDeleted>>

helperVars == <<stack, foundServices, services, foundTasks, tasks,
                foundInstances, instances>>
outcomeVars == <<okCalls, failedCalls, failures>>
pollVars == <<pollTimer, timeoutTimer, waitState, dseInflight, checks, alreadyDeleted>>

\* ---------------------------------------------------------------- helpers
\* the identifiers base+1 .. base+n, in order
Ids(base, n) == [i \in 1..n |-> base + i]

Range(s) == {s[i] : i \in 1..Len(s)}

\* this.events.emit(kind, payload)
Emit(evs, kind, payload) == Append(evs, [kind |-> kind, payload |-> payload])

\* one remote call per element of args, issued in order
Issue(cs, op, args) == cs \o [i \in 1..Len(args) |-> [op |-> op, arg |-> args[i]]]

Call(op, arg) == [op |-> op, arg |-> arg]

CallSet(op, args) == {Call(op, args[i]) : i \in 1..Len(args)}

PendingOf(op) == {c \in pending : c.op = op}

\* positions at which deleteHelper is suspended (or not running)
Awaits == {"init", "scheduled", "w_describeClusters", "w_describeStack", "w_listServices",
           "w_scale", "w_listTasks", "w_stop", "w_listInstances", "w_dereg",
           "w_deleteServices", "w_deleteStack", "w_poll", "w_deleteCluster",
           "finished"}

Suspended == pc \in Awaits

\* constructor: this.launchTypes
LaunchTypes == IF world.enableFargate THEN <<"EC2", "FARGATE">> ELSE <<"EC2">>

\* serviceArns of the listServices response for launch type number l
ServiceArns(l) == IF LaunchTypes[l] = "EC2" THEN world.ec2Services ELSE world.fargateServices

RECURSIVE ConcatScopes(_)
\* listServiceResponses.reduce((acc, r) => acc.concat(r.serviceArns), [])
ConcatScopes(n) == IF n = 0 THEN <<>> ELSE ConcatScopes(n - 1) \o ServiceArns(n)

StackEvent == [LogicalResourceId : 1..MaxResources,
               ResourceStatus : {"DELETE_COMPLETE", "DELETE_IN_PROGRESS"}]

RECURSIVE SeqsUpTo(_, _)
SeqsUpTo(S, n) == IF n = 0 THEN {<<>>}
                  ELSE LET shorter == SeqsUpTo(S, n - 1)
                           longest == {t \in shorter : Len(t) = n - 1}
                       IN shorter \cup {Append(s, x) : s \in longest, x \in S}

\* the StackEvents a describeStackEvents response can carry
Histories == SeqsUpTo(StackEvent, MaxHistLen)

\* ---------------------------------------------------------------- Init
World == [clusterEntry : {"NONE", "OTHER", "INACTIVE", "ACTIVE"},
          hasStack : BOOLEAN,
          enableFargate : BOOLEAN,
          ec2Services : {Ids(0, n) : n \in 0..MaxEc2Services},
          fargateServices : {Ids(10, n) : n \in 0..MaxFargateServices},
          tasks : {Ids(20, n) : n \in 0..MaxTasks},
          instances : {Ids(30, n) : n \in 0..MaxInstances}]

Init ==
    /\ world \in World
    /\ remoteStack = IF world.hasStack THEN "PRESENT" ELSE "NONE"
    /\ returned = FALSE
    /\ pc = "init"
    /\ events = <<>>
    /\ calls = <<>>
    /\ stack = FALSE
    /\ foundServices = <<>>
    /\ services = <<>>
    /\ foundTasks = <<>>
    /\ tasks = <<>>
    /\ foundInstances = <<>>
    /\ instances = <<>>
    /\ pending = {}
    /\ okCalls = {}
    /\ failedCalls = {}
    /\ failures = 0
    /\ pollTimer = "none"
    /\ timeoutTimer = "none"
    /\ waitState = "none"
    /\ dseInflight = 0
    /\ checks = 0
    /\ alreadyDeleted = <<>>

\* a single (not fanned out) remote call settles with outcome ok
Settle1(op, ok) ==
    /\ ok \/ failures < MaxFailures
    /\ failures' = IF ok THEN failures ELSE failures + 1
    /\ okCalls' = IF ok THEN okCalls \cup {Call(op, 0)} ELSE okCalls
    /\ failedCalls' = IF ok THEN failedCalls ELSE failedCalls \cup {Call(op, 0)}

\* a fanned-out remote call c settles with outcome ok
SettleN(c, ok) ==
    /\ ok \/ failures < MaxFailures
    /\ failures' = IF ok THEN failures ELSE failures + 1
    /\ pending' = pending \ {c}
    /\ okCalls' = IF ok THEN okCalls \cup {c} ELSE okCalls
    /\ failedCalls' = IF ok THEN failedCalls ELSE failedCalls \cup {c}

\* ---------------------------------------------------------------- entry point
\* deleteClusterAndResources calling deleteHelper directly instead of through
\* setImmediate: the helper runs to its first await before the caller gets the events
DeleteClusterAndResources_sync ==
    /\ pc = "init"
    /\ returned' = TRUE
    /\ events' = Emit(events, "start", <<>>)
    /\ calls' = Issue(calls, "describeClusters", <<0>>)
    /\ pc' = "w_describeClusters"
    /\ UNCHANGED <<world, remoteStack, helperVars, pending, outcomeVars, pollVars>>

\* lines 17-21: setImmediate(deleteHelper), then return this.events
DeleteClusterAndResources ==
    /\ pc = "init"
    /\ returned' = TRUE
    /\ pc' = "scheduled"
    /\ UNCHANGED <<world, remoteStack, events, calls, helperVars, pending,
                   outcomeVars, pollVars>>

\* deleteHelper up to its first await
DeleteHelperStart ==
    /\ pc = "scheduled"
    /\ events' = Emit(events, "start", <<>>)
    /\ calls' = Issue(calls, "describeClusters", <<0>>)
    /\ pc' = "w_describeClusters"
    /\ UNCHANGED <<world, remoteStack, returned, helperVars, pending,
                   outcomeVars, pollVars>>

\* response.clusters of a successful describeClusters
ClustersResponse ==
    CASE world.clusterEntry = "NONE" -> <<>>
      [] world.clusterEntry = "OTHER" -> <<[clusterName |-> "other", status |-> "ACTIVE"]>>
      [] world.clusterEntry = "INACTIVE" -> <<[clusterName |-> "cluster", status |-> "INACTIVE"]>>
      [] OTHER -> <<[clusterName |-> "cluster", status |-> "ACTIVE"]>>

\* a status filter that lets every cluster through
IsNotInactive_any(c) == TRUE

IsNotInactive(c) == c.status # "INACTIVE"

HasClusterName(c) == c.clusterName = "cluster"

DoesClusterExist(clusters) ==
    Len(SelectSeq(SelectSeq(clusters, IsNotInactive), HasClusterName)) # 0

\* describeClusters settles; describeCluster, doesClusterExist and lines 38-45
DescribeClusterSettle(ok) ==
    /\ pc = "w_describeClusters"
    /\ Settle1("describeClusters", ok)
    /\ LET clusters == IF ok THEN ClustersResponse ELSE <<>>
           evs == IF ok THEN events ELSE Emit(events, "error", <<>>)
       IN IF DoesClusterExist(clusters)
          THEN /\ events' = evs
               /\ calls' = Issue(calls, "describeStacks", <<0>>)
               /\ pc' = "w_describeStack"
          ELSE /\ events' = Emit(evs, "doneWithError", <<>>)
               /\ calls' = calls
               /\ pc' = "finished"
    /\ UNCHANGED <<world, remoteStack, returned, helperVars, pending, pollVars>>

\* describeStacks settles; describeStack and lines 45-49 (getAllServicesFor issues
\* one listServices per launch type)
DescribeStackSettle(ok) ==
    /\ pc = "w_describeStack"
    /\ Settle1("describeStacks", ok)
    /\ LET found == ok /\ remoteStack = "PRESENT"
           evs == IF ok THEN events ELSE Emit(events, "error", <<>>)
       IN /\ stack' = found
          /\ events' = IF found THEN Emit(evs, "stackFound", <<>>) ELSE evs
    /\ calls' = Issue(calls, "listServices", Ids(0, Len(LaunchTypes)))
    /\ pending' = pending \cup CallSet("listServices", Ids(0, Len(LaunchTypes)))
    /\ pc' = "w_listServices"
    /\ UNCHANGED <<world, remoteStack, returned, foundServices, services, foundTasks,
                   tasks, foundInstances, instances, pollVars>>

\* a listServices call settles; the Promise.all and catch of getAllServicesFor
ListServicesSettle(c, ok) ==
    /\ Suspended
    /\ c \in PendingOf("listServices")
    /\ SettleN(c, ok)
    /\ IF pc # "w_listServices"
       THEN UNCHANGED <<pc, events, foundServices>>
       ELSE IF ~ok
            THEN /\ events' = Emit(events, "error", <<>>)
                 /\ foundServices' = <<>>
                 /\ pc' = "s_servicesListed"
            ELSE /\ events' = events
                 /\ IF PendingOf("listServices") = {c}
                    THEN /\ foundServices' = ConcatScopes(Len(LaunchTypes))
                         /\ pc' = "s_servicesListed"
                    ELSE UNCHANGED <<pc, foundServices>>
    /\ UNCHANGED <<world, remoteStack, returned, calls, stack, services, foundTasks, tasks,
                   foundInstances, instances, pollVars>>

\* ServicesListed issuing only the first updateService call before it awaits
ServicesListed_serial ==
    /\ pc = "s_servicesListed"
    /\ IF Len(foundServices) > 0
       THEN /\ events' = Emit(events, "servicesFound", foundServices)
            /\ calls' = Issue(calls, "updateService", <<foundServices[1]>>)
            /\ pending' = pending \cup CallSet("updateService", <<foundServices[1]>>)
            /\ pc' = "w_scale"
       ELSE /\ events' = events
            /\ calls' = Issue(calls, "listTasks", <<0>>)
            /\ pending' = pending
            /\ pc' = "w_listTasks"
    /\ UNCHANGED <<world, remoteStack, returned, helperVars, outcomeVars, pollVars>>

\* ServicesListed scaling every service of the account, whatever launch types were listed
ServicesListed_allScopes ==
    /\ pc = "s_servicesListed"
    /\ IF Len(foundServices) > 0
       THEN /\ events' = Emit(events, "servicesFound", foundServices)
            /\ calls' = Issue(calls, "updateService",
                              world.ec2Services \o world.fargateServices)
            /\ pending' = pending \cup CallSet("updateService",
                                               world.ec2Services \o world.fargateServices)
            /\ pc' = "w_scale"
       ELSE /\ events' = events
            /\ calls' = Issue(calls, "listTasks", <<0>>)
            /\ pending' = pending
            /\ pc' = "w_listTasks"
    /\ UNCHANGED <<world, remoteStack, returned, helperVars, outcomeVars, pollVars>>

\* lines 50-52 and 55: servicesFound and the updateService fan-out, or on to listTasks
ServicesListed ==
    /\ pc = "s_servicesListed"
    /\ IF Len(foundServices) > 0
       THEN /\ events' = Emit(events, "servicesFound", foundServices)
            /\ calls' = Issue(calls, "updateService", foundServices)
            /\ pending' = pending \cup CallSet("updateService", foundServices)
            /\ pc' = "w_scale"
       ELSE /\ events' = events
            /\ calls' = Issue(calls, "listTasks", <<0>>)
            /\ pending' = pending
            /\ pc' = "w_listTasks"
    /\ UNCHANGED <<world, remoteStack, returned, helperVars, outcomeVars, pollVars>>

\* an updateService call settles; the Promise.all and catch of scaleServicesToZero
UpdateServiceSettle(c, ok) ==
    /\ Suspended
    /\ c \in PendingOf("updateService")
    /\ SettleN(c, ok)
    /\ IF pc # "w_scale"
       THEN UNCHANGED <<pc, events, services>>
       ELSE IF ~ok
            THEN /\ events' = Emit(events, "error", <<>>)
                 /\ services' = <<>>
                 /\ pc' = "s_scaled"
            ELSE /\ events' = events
                 /\ IF PendingOf("updateService") = {c}
                    THEN /\ services' = foundServices
                         /\ pc' = "s_scaled"
                    ELSE UNCHANGED <<pc, services>>
    /\ UNCHANGED <<world, remoteStack, returned, calls, stack, foundServices, foundTasks,
                   tasks, foundInstances, instances, pollVars>>

\* lines 53 and 55: servicesScaledDown, then getAllTasksFor
ServicesScaled ==
    /\ pc = "s_scaled"
    /\ events' = Emit(events, "servicesScaledDown", services)
    /\ calls' = Issue(calls, "listTasks", <<0>>)
    /\ pc' = "w_listTasks"
    /\ UNCHANGED <<world, remoteStack, returned, helperVars, pending, outcomeVars, pollVars>>

\* getAllTasksFor whose catch ends the run with doneWithError
ListTasksSettle_fatal(ok) ==
    /\ pc = "w_listTasks"
    /\ Settle1("listTasks", ok)
    /\ foundTasks' = IF ok THEN world.tasks ELSE <<>>
    /\ events' = IF ok THEN events ELSE Emit(events, "doneWithError", <<>>)
    /\ pc' = IF ok THEN "s_tasksListed" ELSE "finished"
    /\ UNCHANGED <<world, remoteStack, returned, calls, stack, foundServices, services,
                   tasks, foundInstances, instances, pending, pollVars>>

\* listTasks settles; getAllTasksFor
ListTasksSettle(ok) ==
    /\ pc = "w_listTasks"
    /\ Settle1("listTasks", ok)
    /\ foundTasks' = IF ok THEN world.tasks ELSE <<>>
    /\ events' = IF ok THEN events ELSE Emit(events, "error", <<>>)
    /\ pc' = "s_tasksListed"
    /\ UNCHANGED <<world, remoteStack, returned, calls, stack, foundServices, services,
                   tasks, foundInstances, instances, pending, pollVars>>

\* lines 56-58 and 61: tasksFound and the stopTask fan-out, or on to listContainerInstances
TasksListed ==
    /\ pc = "s_tasksListed"
    /\ IF Len(foundTasks) > 0
       THEN /\ events' = Emit(events, "tasksFound", foundTasks)
            /\ calls' = Issue(calls, "stopTask", foundTasks)
            /\ pending' = pending \cup CallSet("stopTask", foundTasks)
            /\ pc' = "w_stop"
       ELSE /\ events' = events
            /\ calls' = Issue(calls, "listContainerInstances", <<0>>)
            /\ pending' = pending
            /\ pc' = "w_listInstances"
    /\ UNCHANGED <<world, remoteStack, returned, helperVars, outcomeVars, pollVars>>

\* a stopTask call settles; the Promise.all and catch of stopTasks
StopTaskSettle(c, ok) ==
    /\ Suspended
    /\ c \in PendingOf("stopTask")
    /\ SettleN(c, ok)
    /\ IF pc # "w_stop"
       THEN UNCHANGED <<pc, events, tasks>>
       ELSE IF ~ok
            THEN /\ events' = Emit(events, "error", <<>>)
                 /\ tasks' = <<>>
                 /\ pc' = "s_stopped"
            ELSE /\ events' = events
                 /\ IF PendingOf("stopTask") = {c}
                    THEN /\ tasks' = foundTasks
                         /\ pc' = "s_stopped"
                    ELSE UNCHANGED <<pc, tasks>>
    /\ UNCHANGED <<world, remoteStack, returned, calls, stack, foundServices, services,
                   foundTasks, foundInstances, instances, pollVars>>

\* lines 59 and 61: tasksStopped, then getAllInstancesFor
TasksStopped ==
    /\ pc = "s_stopped"
    /\ events' = Emit(events, "tasksStopped", tasks)
    /\ calls' = Issue(calls, "listContainerInstances", <<0>>)
    /\ pc' = "w_listInstances"
    /\ UNCHANGED <<world, remoteStack, returned, helperVars, pending, outcomeVars, pollVars>>

\* listContainerInstances settles; getAllInstancesFor
ListInstancesSettle(ok) ==
    /\ pc = "w_listInstances"
    /\ Settle1("listContainerInstances", ok)
    /\ foundInstances' = IF ok THEN world.instances ELSE <<>>
    /\ events' = IF ok THEN events ELSE Emit(events, "error", <<>>)
    /\ pc' = "s_instancesListed"
    /\ UNCHANGED <<world, remoteStack, returned, calls, stack, foundServices, services,
                   foundTasks, tasks, instances, pending, pollVars>>

\* lines 62-64: instancesFound and the deregisterContainerInstance fan-out
InstancesListed ==
    /\ pc = "s_instancesListed"
    /\ IF Len(foundInstances) > 0
       THEN /\ events' = Emit(events, "instancesFound", foundInstances)
            /\ calls' = Issue(calls, "deregisterContainerInstance", foundInstances)
            /\ pending' = pending \cup CallSet("deregisterContainerInstance", foundInstances)
            /\ pc' = "w_dereg"
       ELSE /\ UNCHANGED <<events, calls, pending>>
            /\ pc' = "s_deleteServices"
    /\ UNCHANGED <<world, remoteStack, returned, helperVars, outcomeVars, pollVars>>

\* a deregisterContainerInstance call settles; the Promise.all and catch of
\* deregisterContainerInstances
DeregisterSettle(c, ok) ==
    /\ Suspended
    /\ c \in PendingOf("deregisterContainerInstance")
    /\ SettleN(c, ok)
    /\ IF pc # "w_dereg"
       THEN UNCHANGED <<pc, events, instances>>
       ELSE IF ~ok
            THEN /\ events' = Emit(events, "error", <<>>)
                 /\ instances' = <<>>
                 /\ pc' = "s_deregistered"
            ELSE /\ events' = events
                 /\ IF PendingOf("deregisterContainerInstance") = {c}
                    THEN /\ instances' = foundInstances
                         /\ pc' = "s_deregistered"
                    ELSE UNCHANGED <<pc, instances>>
    /\ UNCHANGED <<world, remoteStack, returned, calls, stack, foundServices, services,
                   foundTasks, tasks, foundInstances, pollVars>>

\* line 65: instancesDeregistered
InstancesDeregistered ==
    /\ pc = "s_deregistered"
    /\ events' = Emit(events, "instancesDeregistered", instances)
    /\ pc' = "s_deleteServices"
    /\ UNCHANGED <<world, remoteStack, returned, calls, helperVars, pending, outcomeVars, pollVars>>

\* lines 67-68: the deleteService fan-out over services.map(s => s.serviceName);
\* Promise.all of an empty array is already fulfilled
DeleteServicesStep ==
    /\ pc = "s_deleteServices"
    /\ IF Len(foundServices) > 0
       THEN /\ calls' = Issue(calls, "deleteService", services)
            /\ pending' = pending \cup CallSet("deleteService", services)
            /\ pc' = IF Len(services) > 0 THEN "w_deleteServices" ELSE "s_servicesDeleted"
       ELSE /\ UNCHANGED <<calls, pending>>
            /\ pc' = "s_stackBranch"
    /\ UNCHANGED <<world, remoteStack, returned, events, helperVars, outcomeVars, pollVars>>

\* a deleteService call settles; the Promise.all and catch of deleteAllServices
\* (its return value is not used by deleteHelper)
DeleteServiceSettle(c, ok) ==
    /\ Suspended
    /\ c \in PendingOf("deleteService")
    /\ SettleN(c, ok)
    /\ IF pc # "w_deleteServices"
       THEN UNCHANGED <<pc, events>>
       ELSE IF ~ok
            THEN /\ events' = Emit(events, "error", <<>>)
                 /\ pc' = "s_servicesDeleted"
            ELSE /\ events' = events
                 /\ pc' = IF PendingOf("deleteService") = {c}
                          THEN "s_servicesDeleted" ELSE pc
    /\ UNCHANGED <<world, remoteStack, returned, calls, helperVars, pollVars>>

\* ServicesDeleted without its emit
ServicesDeleted_silent ==
    /\ pc = "s_servicesDeleted"
    /\ pc' = "s_stackBranch"
    /\ UNCHANGED <<world, remoteStack, returned, events, calls, helperVars, pending,
                   outcomeVars, pollVars>>

\* line 69: servicesDeleted carries the result of scaleServicesToZero
ServicesDeleted ==
    /\ pc = "s_servicesDeleted"
    /\ events' = Emit(events, "servicesDeleted", services)
    /\ pc' = "s_stackBranch"
    /\ UNCHANGED <<world, remoteStack, returned, calls, helperVars, pending, outcomeVars, pollVars>>

\* StackBranch taking the stack branch whatever describeStack returned
StackBranch_always ==
    /\ pc = "s_stackBranch"
    /\ calls' = Issue(calls, "deleteStack", <<0>>)
    /\ pc' = "w_deleteStack"
    /\ UNCHANGED <<world, remoteStack, returned, events, helperVars, pending, outcomeVars,
                   pollVars>>

\* lines 71-72 and 86-87: deleteStack when a stack was found, else deleteCluster
StackBranch ==
    /\ pc = "s_stackBranch"
    /\ IF stack
       THEN /\ calls' = Issue(calls, "deleteStack", <<0>>)
            /\ pc' = "w_deleteStack"
       ELSE /\ calls' = Issue(calls, "deleteCluster", <<0>>)
            /\ pc' = "w_deleteCluster"
    /\ UNCHANGED <<world, remoteStack, returned, events, helperVars, pending, outcomeVars,
                   pollVars>>

\* deleteStack settles; deleteStack's catch, line 73 and pollCloudFormationForChanges
\* up to its return (interval set up, timeout armed, waitFor started)
DeleteStackSettle(ok) ==
    /\ pc = "w_deleteStack"
    /\ Settle1("deleteStack", ok)
    /\ remoteStack' = IF ok /\ remoteStack = "PRESENT" THEN "DELETING" ELSE remoteStack
    /\ events' = Emit(IF ok THEN events ELSE Emit(events, "error", <<>>),
                      "stackDeletionStarted", <<>>)
    /\ pollTimer' = "active"
    /\ timeoutTimer' = "armed"
    /\ calls' = Issue(calls, "waitFor", <<0>>)
    /\ waitState' = "pending"
    /\ pc' = "w_poll"
    /\ UNCHANGED <<world, returned, helperVars, pending, dseInflight, checks, alreadyDeleted>>

\* CloudFormation finishes deleting the stack
RemoteStackDeleted ==
    /\ Suspended
    /\ remoteStack = "DELETING"
    /\ remoteStack' = "DELETED"
    /\ UNCHANGED <<world, returned, pc, events, calls, helperVars, pending, outcomeVars, pollVars>>

\* waitFor('stackDeleteComplete') resolves: the .then of deletePromise, and the race
WaitResolves ==
    /\ Suspended
    /\ waitState = "pending"
    /\ remoteStack = "DELETED"
    /\ waitState' = "resolved"
    /\ Settle1("waitFor", TRUE)
    /\ pollTimer' = "cleared"
    /\ timeoutTimer' = IF timeoutTimer = "armed" THEN "cleared" ELSE timeoutTimer
    /\ pc' = IF pc = "w_poll" THEN "s_pollDone" ELSE pc
    /\ UNCHANGED <<world, remoteStack, returned, events, calls, helperVars, pending,
                   dseInflight, checks, alreadyDeleted>>

\* waitFor('stackDeleteComplete') rejects: deletePromise rejects, its .then is skipped
WaitRejects ==
    /\ Suspended
    /\ waitState = "pending"
    /\ waitState' = "rejected"
    /\ Settle1("waitFor", FALSE)
    /\ pc' = IF pc = "w_poll" THEN "s_pollFailed" ELSE pc
    /\ UNCHANGED <<world, remoteStack, returned, events, calls, helperVars, pending,
                   pollTimer, timeoutTimer, dseInflight, checks, alreadyDeleted>>

\* a timeout callback that stops the interval but does not reject timeoutPromise
TimeoutFires_noReject ==
    /\ Suspended
    /\ timeoutTimer = "armed"
    /\ timeoutTimer' = "fired"
    /\ pollTimer' = "cleared"
    /\ UNCHANGED <<world, remoteStack, returned, pc, events, calls, helperVars, pending,
                   outcomeVars, waitState, dseInflight, checks, alreadyDeleted>>

\* the setTimeout callback of pollCloudFormationForChanges after TEN_MINUTES
TimeoutFires ==
    /\ Suspended
    /\ timeoutTimer = "armed"
    /\ timeoutTimer' = "fired"
    /\ pollTimer' = "cleared"
    /\ pc' = IF pc = "w_poll" THEN "s_pollFailed" ELSE pc
    /\ UNCHANGED <<world, remoteStack, returned, events, calls, helperVars, pending,
                   outcomeVars, waitState, dseInflight, checks, alreadyDeleted>>

\* the setInterval callback pollEvent every TEN_SECONDS, up to its await
PollEvent ==
    /\ Suspended
    /\ pollTimer = "active"
    /\ checks < MaxChecks
    /\ checks' = checks + 1
    /\ dseInflight' = dseInflight + 1
    /\ calls' = Issue(calls, "describeStackEvents", <<0>>)
    /\ UNCHANGED <<world, remoteStack, returned, pc, events, helperVars, pending,
                   outcomeVars, pollTimer, timeoutTimer, waitState, alreadyDeleted>>

IsDeleteComplete(e) == e.ResourceStatus = "DELETE_COMPLETE"

\* stackEvents.filter(DELETE_COMPLETE).filter(not in alreadyDeleted): both filters
\* run over the whole array before the forEach pushes anything
NewlyDeleted(stackEvents, already) ==
    LET NotAlready(e) == e.LogicalResourceId \notin Range(already)
    IN SelectSeq(SelectSeq(stackEvents, IsDeleteComplete), NotAlready)

\* a pollEvent whose failed describeStackEvents makes the pending wait fail
DescribeStackEventsSettle_fatal(ok, hist) ==
    /\ Suspended
    /\ dseInflight > 0
    /\ dseInflight' = dseInflight - 1
    /\ Settle1("describeStackEvents", ok)
    /\ LET stackEvents == IF ok THEN hist ELSE <<>>
           fresh == NewlyDeleted(stackEvents, alreadyDeleted)
           evs == IF ok THEN events ELSE Emit(events, "error", <<>>)
       IN /\ alreadyDeleted' = alreadyDeleted
                 \o [i \in 1..Len(fresh) |-> fresh[i].LogicalResourceId]
          /\ events' = evs \o [i \in 1..Len(fresh) |->
                                 [kind |-> "resourceDeleted",
                                  payload |-> <<fresh[i].LogicalResourceId>>]]
    /\ pc' = IF ~ok /\ pc = "w_poll" THEN "s_pollFailed" ELSE pc
    /\ UNCHANGED <<world, remoteStack, returned, calls, helperVars, pending,
                   pollTimer, timeoutTimer, waitState, checks>>

\* describeStackEvents settles; describeStackEvents' catch and the rest of pollEvent
DescribeStackEventsSettle(ok, hist) ==
    /\ Suspended
    /\ dseInflight > 0
    /\ dseInflight' = dseInflight - 1
    /\ Settle1("describeStackEvents", ok)
    /\ LET stackEvents == IF ok THEN hist ELSE <<>>
           fresh == NewlyDeleted(stackEvents, alreadyDeleted)
           evs == IF ok THEN events ELSE Emit(events, "error", <<>>)
       IN /\ alreadyDeleted' = alreadyDeleted
                 \o [i \in 1..Len(fresh) |-> fresh[i].LogicalResourceId]
          /\ events' = evs \o [i \in 1..Len(fresh) |->
                                 [kind |-> "resourceDeleted",
                                  payload |-> <<fresh[i].LogicalResourceId>>]]
    /\ UNCHANGED <<world, remoteStack, returned, pc, calls, helperVars, pending,
                   pollTimer, timeoutTimer, waitState, checks>>

\* lines 76-77: stackDeletionDone, then deleteCluster
PollDone ==
    /\ pc = "s_pollDone"
    /\ events' = Emit(events, "stackDeletionDone", <<>>)
    /\ calls' = Issue(calls, "deleteCluster", <<0>>)
    /\ pc' = "w_deleteCluster"
    /\ UNCHANGED <<world, remoteStack, returned, helperVars, pending, outcomeVars, pollVars>>

\* lines 81-83: the catch of the stack branch
PollFailed ==
    /\ pc = "s_pollFailed"
    /\ events' = Emit(events, "doneWithError", <<>>)
    /\ pc' = "finished"
    /\ UNCHANGED <<world, remoteStack, returned, calls, helperVars, pending, outcomeVars, pollVars>>

\* deleteCluster settles; deleteCluster's catch (which returns undefined) and
\* lines 78-79 / 88-89
DeleteClusterSettle(ok) ==
    /\ pc = "w_deleteCluster"
    /\ Settle1("deleteCluster", ok)
    /\ LET evs == IF ok THEN events ELSE Emit(events, "doneWithError", <<>>)
           deletedCluster == IF ok THEN <<1>> ELSE <<>>
       IN events' = Emit(Emit(evs, "clusterDeleted", deletedCluster), "done", <<>>)
    /\ pc' = "finished"
    /\ UNCHANGED <<world, remoteStack, returned, calls, helperVars, pending, pollVars>>

\* ---------------------------------------------------------------- specification
Next ==
    \/ DeleteClusterAndResources
    \/ DeleteHelperStart
    \/ \E ok \in BOOLEAN : DescribeClusterSettle(ok)
    \/ \E ok \in BOOLEAN : DescribeStackSettle(ok)
    \/ \E c \in pending, ok \in BOOLEAN : ListServicesSettle(c, ok)
    \/ ServicesListed
    \/ \E c \in pending, ok \in BOOLEAN : UpdateServiceSettle(c, ok)
    \/ ServicesScaled
    \/ \E ok \in BOOLEAN : ListTasksSettle(ok)
    \/ TasksListed
    \/ \E c \in pending, ok \in BOOLEAN : StopTaskSettle(c, ok)
    \/ TasksStopped
    \/ \E ok \in BOOLEAN : ListInstancesSettle(ok)
    \/ InstancesListed
    \/ \E c \in pending, ok \in BOOLEAN : DeregisterSettle(c, ok)
    \/ InstancesDeregistered
    \/ DeleteServicesStep
    \/ \E c \in pending, ok \in BOOLEAN : DeleteServiceSettle(c, ok)
    \/ ServicesDeleted
    \/ StackBranch
    \/ \E ok \in BOOLEAN : DeleteStackSettle(ok)
    \/ RemoteStackDeleted
    \/ WaitResolves
    \/ WaitRejects
    \/ TimeoutFires
    \/ PollEvent
    \/ \E hist \in Histories : DescribeStackEventsSettle(TRUE, hist)
    \/ DescribeStackEventsSettle(FALSE, <<>>)
    \/ PollDone
    \/ PollFailed
    \/ \E ok \in BOOLEAN : DeleteClusterSettle(ok)

Spec == Init /\ [][Next]_vars

\* Every remote call other than waitFor eventually settles, every timer that is set and
\* not cleared eventually fires, and deleteHelper runs on whenever it can.  Nothing is
\* assumed of the caller, of CloudFormation's progress or of waitFor.
Fairness ==
    /\ WF_vars(DeleteHelperStart)
    /\ WF_vars(\E ok \in BOOLEAN : DescribeClusterSettle(ok))
    /\ WF_vars(\E ok \in BOOLEAN : DescribeStackSettle(ok))
    /\ WF_vars(\E c \in pending, ok \in BOOLEAN : ListServicesSettle(c, ok))
    /\ WF_vars(ServicesListed)
    /\ WF_vars(\E c \in pending, ok \in BOOLEAN : UpdateServiceSettle(c, ok))
    /\ WF_vars(ServicesScaled)
    /\ WF_vars(\E ok \in BOOLEAN : ListTasksSettle(ok))
    /\ WF_vars(TasksListed)
    /\ WF_vars(\E c \in pending, ok \in BOOLEAN : StopTaskSettle(c, ok))
    /\ WF_vars(TasksStopped)
    /\ WF_vars(\E ok \in BOOLEAN : ListInstancesSettle(ok))
    /\ WF_vars(InstancesListed)
    /\ WF_vars(\E c \in pending, ok \in BOOLEAN : DeregisterSettle(c, ok))
    /\ WF_vars(InstancesDeregistered)
    /\ WF_vars(DeleteServicesStep)
    /\ WF_vars(\E c \in pending, ok \in BOOLEAN : DeleteServiceSettle(c, ok))
    /\ WF_vars(ServicesDeleted)
    /\ WF_vars(StackBranch)
    /\ WF_vars(\E ok \in BOOLEAN : DeleteStackSettle(ok))
    /\ WF_vars(TimeoutFires)
    /\ WF_vars(PollEvent)
    /\ WF_vars(\E hist \in Histories : DescribeStackEventsSettle(TRUE, hist))
    /\ WF_vars(PollDone)
    /\ WF_vars(PollFailed)
    /\ WF_vars(\E ok \in BOOLEAN : DeleteClusterSettle(ok))

LiveSpec == Init /\ [][Next]_vars /\ Fairness

\* ---------------------------------------------------------------- properties
Kinds(evs) == [i \in 1..Len(evs) |-> evs[i].kind]

IsPrefix(s, t) == Len(s) <= Len(t) /\ \A i \in 1..Len(s) : s[i] = t[i]

HasEvent(kind) == \E i \in 1..Len(events) : events[i].kind = kind

HasCall(op) == \E i \in 1..Len(calls) : calls[i].op = op

NotResourceDeleted(e) == e.kind # "resourceDeleted"

\* what the account holds that the discovery steps can see
N == Len(world.ec2Services) + (IF world.enableFargate THEN Len(world.fargateServices) ELSE 0)
M == Len(world.tasks)
K == Len(world.instances)

Pair(cond, a, b) == IF cond THEN <<a, b>> ELSE <<>>
One(cond, a) == IF cond THEN <<a>> ELSE <<>>

\* the sequence of section 8 of the specification, resourceDeleted left out
ExpectedKinds(withStack) ==
    <<"start">> \o One(withStack, "stackFound")
    \o Pair(N > 0, "servicesFound", "servicesScaledDown")
    \o Pair(M > 0, "tasksFound", "tasksStopped")
    \o Pair(K > 0, "instancesFound", "instancesDeregistered")
    \o One(N > 0, "servicesDeleted")
    \o Pair(withStack, "stackDeletionStarted", "stackDeletionDone")
    \o <<"clusterDeleted", "done">>

\* C1: on an existing cluster with a stack, as long as no remote call has failed and
\* the timeout has not fired, the events other than resourceDeleted are a prefix of
\* start, stackFound, [servicesFound, servicesScaledDown], [tasksFound, tasksStopped],
\* [instancesFound, instancesDeregistered], [servicesDeleted], stackDeletionStarted,
\* stackDeletionDone, clusterDeleted, done, and are exactly that sequence when the
\* run has finished.
C1_HappyPathSequence ==
    (world.clusterEntry = "ACTIVE" /\ world.hasStack /\ failures = 0
        /\ timeoutTimer # "fired")
    => LET kinds == Kinds(SelectSeq(events, NotResourceDeleted))
       IN /\ IsPrefix(kinds, ExpectedKinds(TRUE))
          /\ pc = "finished" => kinds = ExpectedKinds(TRUE)

C1_Witness ==
    /\ world.clusterEntry = "ACTIVE" /\ world.hasStack /\ failures = 0
    /\ N >= 2 /\ M >= 1 /\ K >= 1
    /\ pc = "finished" /\ waitState = "resolved" /\ timeoutTimer = "cleared"
    /\ HasEvent("resourceDeleted")
    /\ HasEvent("done")

AfterPoll == {"stackDeletionDone", "clusterDeleted", "done", "doneWithError"}

\* C2: every resourceDeleted event comes after stackDeletionStarted and before any of
\* stackDeletionDone, clusterDeleted, done and doneWithError.
C2_ResourceDeletedOnlyDuringPoll ==
    \A j \in 1..Len(events) :
        (events[j].kind = "resourceDeleted" /\ failures = 0)
        => /\ \E i \in 1..(j - 1) : events[i].kind = "stackDeletionStarted"
           /\ \A i \in 1..(j - 1) : events[i].kind \notin AfterPoll

\* the race of pollCloudFormationForChanges was lost: the timer fired before the wait
\* resolved, or the wait rejected
RaceFailed == timeoutTimer = "fired" \/ waitState = "rejected"

\* C3: when the timeout fires before the wait resolves, or the wait rejects, the event
\* sequence ends in doneWithError, neither clusterDeleted nor done is emitted and
\* deleteCluster is never called.
C3_TimeoutEndsInDoneWithError ==
    (RaceFailed /\ failedCalls \subseteq {Call("waitFor", 0)})
    => /\ ~HasEvent("clusterDeleted") /\ ~HasEvent("done")
       /\ ~HasCall("deleteCluster")
       /\ pc = "finished" => events[Len(events)].kind = "doneWithError"

\* C4: when the deleteCluster call fails, the run ends with doneWithError as its last
\* event; clusterDeleted and done do not follow it.
C4_DeleteClusterFailureIsTerminal ==
    (Call("deleteCluster", 0) \in failedCalls /\ failures = 1)
    => /\ events[Len(events)].kind = "doneWithError"
       /\ ~HasEvent("clusterDeleted") /\ ~HasEvent("done")

FailedOf(op) == {c \in failedCalls : c.op = op}

Scaled(s) == Call("updateService", s) \in okCalls

\* C5: when exactly one updateService call of the scale step has failed and all the
\* others have succeeded, servicesScaledDown carries exactly the services whose call
\* succeeded and is preceded by exactly one error event of that step.
C5_PartialScaleResults ==
    (Len(foundServices) >= 2 /\ Cardinality(FailedOf("updateService")) = 1
        /\ failures = 1 /\ PendingOf("updateService") = {} /\ pc = "finished")
    => \E j \in 1..Len(events) :
          /\ events[j].kind = "servicesScaledDown"
          /\ events[j].payload = SelectSeq(foundServices, Scaled)
          /\ events[j - 1].kind = "error"
          /\ events[j - 2].kind = "servicesFound"

\* C6: no two resourceDeleted events carry the same logical resource identifier.
C6_ResourceDeletedOncePerId ==
    \A i, j \in 1..Len(events) :
        (i < j /\ events[i].kind = "resourceDeleted" /\ events[j].kind = "resourceDeleted"
            /\ failures = 0)
        => events[i].payload # events[j].payload

NoEntry == world.clusterEntry \in {"NONE", "OTHER", "INACTIVE"}

\* C7: when describeClusters succeeds without an active entry of that name, the events
\* are start then doneWithError and describeClusters is the only remote call.
C7_MissingClusterStopsAtOnce ==
    (NoEntry /\ Call("describeClusters", 0) \notin failedCalls)
    => /\ IsPrefix(Kinds(events), <<"start", "doneWithError">>)
       /\ IsPrefix(calls, <<Call("describeClusters", 0)>>)
       /\ pc = "finished" => Kinds(events) = <<"start", "doneWithError">>

C7_Witness ==
    /\ world.clusterEntry = "INACTIVE"
    /\ Call("describeClusters", 0) \in okCalls
    /\ pc = "finished"
    /\ Kinds(events) = <<"start", "doneWithError">>

StackOps == {"deleteStack", "waitFor", "describeStackEvents"}

StackKinds == {"stackFound", "stackDeletionStarted", "stackDeletionDone", "resourceDeleted"}

\* C8: on an existing cluster without a stack, as long as no remote call has failed,
\* no stack event is emitted, no deleteStack, waitFor or describeStackEvents call is
\* issued and no poller is set up, and the events are start, the pairs of the
\* non-empty resource kinds, [servicesDeleted], clusterDeleted, done.
C8_NoStackSequence ==
    (world.clusterEntry = "ACTIVE" /\ ~world.hasStack /\ failures = 0)
    => /\ IsPrefix(Kinds(events), ExpectedKinds(FALSE))
       /\ pc = "finished" => Kinds(events) = ExpectedKinds(FALSE)
       /\ \A i \in 1..Len(calls) : calls[i].op \notin StackOps
       /\ \A i \in 1..Len(events) : events[i].kind \notin StackKinds
       /\ waitState = "none" /\ pollTimer = "none" /\ timeoutTimer = "none"

C8_Witness ==
    /\ world.clusterEntry = "ACTIVE" /\ ~world.hasStack /\ failures = 0
    /\ N >= 1 /\ K >= 1
    /\ pc = "finished"
    /\ HasEvent("done")
    /\ Call("describeStacks", 0) \in okCalls

\* C10: an event is emitted or a remote call issued only after
\* deleteClusterAndResources has returned the event source.
C10_ReturnsBeforeAnyCallOrEvent ==
    [][(events' # events \/ calls' # calls) => returned]_vars

C10_Witness ==
    returned /\ pc = "scheduled" /\ events = <<>> /\ calls = <<>>

Terminal == HasEvent("done") \/ HasEvent("doneWithError")

\* C9: once deleteClusterAndResources has been called, a terminal event (done or
\* doneWithError) is eventually emitted, whether or not waitFor ever settles.
C9_EventuallyTerminal == returned ~> Terminal

C9_Witness ==
    /\ timeoutTimer = "fired" /\ waitState = "pending"
    /\ pc = "finished"
    /\ events[Len(events)].kind = "doneWithError"

NonFatalOps == {"describeStacks", "listServices", "updateService", "listTasks", "stopTask",
                "listContainerInstances", "deregisterContainerInstance", "deleteService",
                "deleteStack", "describeStackEvents"}

FailedOps == {c.op : c \in failedCalls}

ErrorEvents == {i \in 1..Len(events) : events[i].kind = "error"}

RaceSettled == waitState \in {"resolved", "rejected"} \/ timeoutTimer = "fired"

\* C12: once the promise of pollCloudFormationForChanges has settled, the interval is
\* no longer active and the timeout timer is no longer armed.
C12_TimersReleasedOnSettle ==
    (RaceSettled /\ failedCalls \subseteq {Call("waitFor", 0)})
    => (pollTimer # "active" /\ timeoutTimer # "armed")

\* C13: deleteCluster is not called while the stack EC2ContainerService-<cluster> still
\* exists (present or being deleted) in CloudFormation.
C13_NoClusterDeleteWhileStackExists ==
    (HasCall("deleteCluster") /\ failedCalls \subseteq {Call("describeStacks", 0)})
    => remoteStack \in {"NONE", "DELETED"}

FanOutEvent == [updateService |-> "servicesScaledDown", stopTask |-> "tasksStopped",
                deregisterContainerInstance |-> "instancesDeregistered",
                deleteService |-> "servicesDeleted"]

\* C14: the event of a mutation step is not emitted while a per-resource call of that
\* step is still in flight.
C14_StepWaitsForAllCalls ==
    \A op \in DOMAIN FanOutEvent :
        (HasEvent(FanOutEvent[op]) /\ failures <= 1) => PendingOf(op) = {}

ScopeOk(l) == Call("listServices", l) \in okCalls

RECURSIVE ConcatOkScopes(_)
\* the serviceArns of the launch types whose listServices call succeeded, in order
ConcatOkScopes(n) ==
    IF n = 0 THEN <<>>
    ELSE ConcatOkScopes(n - 1) \o (IF ScopeOk(n) THEN ServiceArns(n) ELSE <<>>)

\* C15: with EC2 and FARGATE enabled, once both listServices calls have settled with at
\* most one of them failed, foundServices is the concatenation, in launch-type order, of
\* the lists of the scopes that succeeded, and servicesFound is emitted when it is not
\* empty.
C15_DiscoveryKeepsSucceededScopes ==
    (world.enableFargate /\ HasCall("listServices") /\ PendingOf("listServices") = {}
        /\ pc \notin {"w_listServices", "s_servicesListed"} /\ failures <= 1)
    => /\ foundServices = ConcatOkScopes(Len(LaunchTypes))
       /\ Len(ConcatOkScopes(Len(LaunchTypes))) > 0 => HasEvent("servicesFound")

DeletedOk(s) == Call("deleteService", s) \in okCalls

\* C16: once every deleteService call has settled, the payload of servicesDeleted is
\* exactly the discovered services whose deleteService call succeeded.
C16_ServicesDeletedPayload ==
    \A j \in 1..Len(events) :
        (events[j].kind = "servicesDeleted" /\ PendingOf("deleteService") = {}
            /\ failures <= 1)
        => events[j].payload = SelectSeq(foundServices, DeletedOk)

AllIssued(op, found) == \A i \in 1..Len(found) : \E k \in 1..Len(calls) :
                            calls[k] = Call(op, found[i])

\* C17: a resource kind whose discovery returned nothing gets no mutation call and no
\* event; a kind whose discovery returned resources has, in a finished run, its found
\* and mutation events and a mutation call per resource, and every discovered service
\* has a deleteService call.
C17_MutationIffDiscovered ==
    failures <= 1
    => /\ foundServices = <<>>
          => /\ ~HasCall("updateService") /\ ~HasCall("deleteService")
             /\ ~HasEvent("servicesFound") /\ ~HasEvent("servicesScaledDown")
             /\ ~HasEvent("servicesDeleted")
       /\ foundTasks = <<>>
          => ~HasCall("stopTask") /\ ~HasEvent("tasksFound") /\ ~HasEvent("tasksStopped")
       /\ foundInstances = <<>>
          => /\ ~HasCall("deregisterContainerInstance")
             /\ ~HasEvent("instancesFound") /\ ~HasEvent("instancesDeregistered")
       /\ pc = "finished"
          => /\ AllIssued("updateService", foundServices)
             /\ AllIssued("stopTask", foundTasks)
             /\ AllIssued("deregisterContainerInstance", foundInstances)
             /\ AllIssued("deleteService", foundServices)

\* what the discovery call of the run returned for the target of mutation call c
Discovered(c) ==
    CASE c.op \in {"updateService", "deleteService"} ->
             IF \A l \in 1..Len(LaunchTypes) : ScopeOk(l)
             THEN Range(ConcatScopes(Len(LaunchTypes))) ELSE {}
      [] c.op = "stopTask" ->
             IF Call("listTasks", 0) \in okCalls THEN Range(world.tasks) ELSE {}
      [] c.op = "deregisterContainerInstance" ->
             IF Call("listContainerInstances", 0) \in okCalls
             THEN Range(world.instances) ELSE {}

\* C18: every updateService, stopTask, deregisterContainerInstance and deleteService
\* call targets a resource that the discovery call of this run returned.
C18_MutationsTargetDiscovered ==
    \A k \in 1..Len(calls) :
        calls[k].op \in DOMAIN FanOutEvent => calls[k].arg \in Discovered(calls[k])

C18_Witness ==
    /\ ~world.enableFargate /\ Len(world.fargateServices) > 0
    /\ HasCall("updateService") /\ HasCall("deleteService")
    /\ HasCall("stopTask") /\ HasCall("deregisterContainerInstance")
    /\ pc = "finished"

\* the array a fan-out step maps its remote call over
FanOutInput(op) ==
    CASE op = "updateService" -> foundServices
      [] op = "stopTask" -> foundTasks
      [] op = "deregisterContainerInstance" -> foundInstances
      [] op = "deleteService" -> services

Settled(op) == {c \in okCalls \cup failedCalls : c.op = op}

\* C19: as soon as one call of a mutation step has been issued, the call of every
\* resource of the step has been issued, whether or not any of them has settled.
C19_FanOutIssuedTogether ==
    \A op \in DOMAIN FanOutEvent : HasCall(op) => AllIssued(op, FanOutInput(op))

\* both updateService calls are in flight, none has settled
C19_Witness ==
    /\ Len(foundServices) >= 2
    /\ pc = "w_scale"
    /\ PendingOf("updateService") = CallSet("updateService", foundServices)
    /\ Settled("updateService") = {}

\* a step of the periodic check: pollEvent starts or its describeStackEvents settles
CheckStep == checks' # checks \/ dseInflight' # dseInflight

\* a step that adds nothing to the events but resourceDeleted and error
OnlyObserves ==
    /\ IsPrefix(events, events')
    /\ \A i \in (Len(events) + 1)..Len(events') :
           events'[i].kind \in {"resourceDeleted", "error"}

\* C20: a step of the periodic check leaves the position of deleteHelper, the wait, both
\* timers and the stack untouched and only adds resourceDeleted or error events (a
\* failed check exactly one error event); and a finished run of the stack branch has
\* emitted done exactly when waitFor resolved before the timeout, whatever the checks
\* did.
C20_PeriodicCheckObservational ==
    /\ [][CheckStep =>
            /\ UNCHANGED <<pc, waitState, pollTimer, timeoutTimer, remoteStack, returned,
                           pending, helperVars>>
            /\ OnlyObserves
            /\ failures' # failures => events' = Emit(events, "error", <<>>)]_vars
    /\ []((stack /\ pc = "finished")
            => (HasEvent("done") <=> (waitState = "resolved" /\ timeoutTimer = "cleared")))

C20_Witness ==
    /\ Call("describeStackEvents", 0) \in failedCalls
    /\ HasEvent("resourceDeleted")
    /\ failures = 1
    /\ pc = "finished"
    /\ HasEvent("done")

====
